---------------------------- MODULE Spec2Model ----------------------------
(***************************************************************************)
(* Ruzzle OS packaging tools: the manifest mini-language                   *)
(* (tools/module_lint.py, tools/market_scan.py), the .rpiece bundle codec  *)
(* (tools/pack_module.py, tools/market_scan.py) and the marketplace index  *)
(* builder (tools/market_scan.py main).                                    *)
(*                                                                         *)
(* Text is a sequence of Unicode code points (naturals), a byte string a   *)
(* sequence of naturals below 256.  Python's str/bytes operations are      *)
(* modelled character by character.                                        *)
(***************************************************************************)
EXTENDS Integers, Sequences, FiniteSets, TLC

VARIABLES
    \* Packing and scanning one bundle file (pack_module, parse_bundle).
    src_manifest,  \* the manifest bytes given to the packer
    src_payload,   \* the payload bytes given to the packer
    sign_key,      \* the key the bundle was signed with
    fmt,           \* the format version of the file, 0 while there is none
    file_bytes,    \* the bytes of the bundle file
    edit,          \* what happened to the file after it was written
    scan_key,      \* the key parse_bundle was called with
    result,        \* what parse_bundle raised or returned
    stage          \* "input", "rejected", "packed", "edited", "parsed"

codecVars ==
    <<src_manifest, src_payload, sign_key, fmt, file_bytes, edit, scan_key,
      result, stage>>

VARIABLES
    \* One run of market_scan.main and what it leaves on disk.
    inputs,        \* the --input paths, in command-line order
    env_key,       \* RUZZLE_MARKETPLACE_KEY, or NoEnv when it is not set
    bundles,       \* the list discover_inputs returned
    pos,           \* how many bundles the loop has been through
    entries,       \* main's list of entries
    names,         \* main's set of names seen
    pc,            \* "start", "loop", "done"
    rc,            \* the exit status, -1 while main runs
    err,           \* what the run reported on stderr
    index,         \* the text of the output file, Absent while there is none
    wrote,         \* whether this run has called write_index
    reordered,     \* whether this run's paths are those of the run before
                   \* it in another order
    prev_entries,  \* the entries the run before this one handed to write_index
    prev_index     \* the output file as the run before this one left it

indexVars ==
    <<inputs, env_key, bundles, pos, entries, names, pc, rc, err, index, wrote,
      reordered, prev_entries, prev_index>>

VARIABLES
    \* module_lint on one module.toml.
    toml,          \* the text of the manifest file
    diags,         \* the list lint_manifest returned
    lint_pc        \* "ready", "linted"

lintVars == <<toml, diags, lint_pc>>

vars == <<codecVars, indexVars, lintVars>>

\* Code points of the characters used to write literals.
Ord ==
    "/" :> 47 @@
    " " :> 32 @@ "\"" :> 34 @@ "#" :> 35 @@ "+" :> 43 @@ "," :> 44 @@ "-" :> 45 @@
    "." :> 46 @@ "0" :> 48 @@ "1" :> 49 @@ "2" :> 50 @@ "3" :> 51 @@ "4" :> 52 @@
    "5" :> 53 @@ "6" :> 54 @@ "7" :> 55 @@ "8" :> 56 @@ "9" :> 57 @@ "=" :> 61 @@
    "@" :> 64 @@ "A" :> 65 @@ "B" :> 66 @@ "C" :> 67 @@ "D" :> 68 @@ "E" :> 69 @@
    "F" :> 70 @@ "G" :> 71 @@ "H" :> 72 @@ "I" :> 73 @@ "J" :> 74 @@ "K" :> 75 @@
    "L" :> 76 @@ "M" :> 77 @@ "N" :> 78 @@ "O" :> 79 @@ "P" :> 80 @@ "Q" :> 81 @@
    "R" :> 82 @@ "S" :> 83 @@ "T" :> 84 @@ "U" :> 85 @@ "V" :> 86 @@ "W" :> 87 @@
    "X" :> 88 @@ "Y" :> 89 @@ "Z" :> 90 @@ "[" :> 91 @@ "]" :> 93 @@ "_" :> 95 @@
    "a" :> 97 @@ "b" :> 98 @@ "c" :> 99 @@ "d" :> 100 @@ "e" :> 101 @@ "f" :> 102 @@
    "g" :> 103 @@ "h" :> 104 @@ "i" :> 105 @@ "j" :> 106 @@ "k" :> 107 @@ "l" :> 108 @@
    "m" :> 109 @@ "n" :> 110 @@ "o" :> 111 @@ "p" :> 112 @@ "q" :> 113 @@ "r" :> 114 @@
    "s" :> 115 @@ "t" :> 116 @@ "u" :> 117 @@ "v" :> 118 @@ "w" :> 119 @@ "x" :> 120 @@
    "y" :> 121 @@ "z" :> 122 @@ "\n" :> 10 @@ "\t" :> 9 @@ "\r" :> 13

\* The text of a literal written as a tuple of one-character strings.
Txt(chars) == [i \in 1..Len(chars) |-> Ord[chars[i]]]

RECURSIVE Flatten(_)
Flatten(seqs) ==
    IF seqs = <<>> THEN <<>> ELSE Head(seqs) \o Flatten(Tail(seqs))

Range(s) == {s[i] : i \in 1..Len(s)}

StartsWith(s, p) == Len(s) >= Len(p) /\ SubSeq(s, 1, Len(p)) = p

EndsWith(s, p) == Len(s) >= Len(p) /\ SubSeq(s, Len(s) - Len(p) + 1, Len(s)) = p

\* Python's lexicographic order on str (by code point).
RECURSIVE StrLess(_, _)
StrLess(a, b) ==
    IF b = <<>> THEN FALSE
    ELSE IF a = <<>> THEN TRUE
    ELSE IF Head(a) # Head(b) THEN Head(a) < Head(b)
    ELSE StrLess(Tail(a), Tail(b))

(***************************************************************************)
(* str.strip, str.splitlines, str.split                                    *)
(***************************************************************************)
\* The code points for which str.isspace() is true (what strip() removes).
WHITESPACE ==
    (9..13) \cup (28..32) \cup {133, 160, 5760} \cup (8192..8202)
        \cup {8232, 8233, 8239, 8287, 12288}

\* The line boundaries of str.splitlines ("\r\n" counts as one).
LINE_BREAKS == (10..13) \cup (28..30) \cup {133, 8232, 8233}

RECURSIVE LStrip(_)
LStrip(s) ==
    IF s # <<>> /\ Head(s) \in WHITESPACE THEN LStrip(Tail(s)) ELSE s

RECURSIVE RStrip(_)
RStrip(s) ==
    IF s # <<>> /\ s[Len(s)] \in WHITESPACE
    THEN RStrip(SubSeq(s, 1, Len(s) - 1)) ELSE s

strip(s) == RStrip(LStrip(s))

\* Index of the first element of s that lies in the set, 0 when there is none.
RECURSIVE FirstIn(_, _, _)
FirstIn(s, set, i) ==
    IF i > Len(s) THEN 0
    ELSE IF s[i] \in set THEN i
    ELSE FirstIn(s, set, i + 1)

RECURSIVE splitlines(_)
splitlines(text) ==
    IF text = <<>> THEN <<>>
    ELSE LET i == FirstIn(text, LINE_BREAKS, 1) IN
         IF i = 0 THEN <<text>>
         ELSE LET crlf == text[i] = 13 /\ i < Len(text) /\ text[i + 1] = 10
                  next == IF crlf THEN i + 2 ELSE i + 1
              IN  <<SubSeq(text, 1, i - 1)>>
                      \o splitlines(SubSeq(text, next, Len(text)))

\* str.split(sep) for a one-character separator: always at least one piece.
RECURSIVE split(_, _)
split(s, sep) ==
    LET i == FirstIn(s, {sep}, 1) IN
    IF i = 0 THEN <<s>>
    ELSE <<SubSeq(s, 1, i - 1)>> \o split(SubSeq(s, i + 1, Len(s)), sep)

(***************************************************************************)
(* The manifest grammar parser                                             *)
(***************************************************************************)
\* A raised ValueError: its message and, where the message carries one, the
\* 1-based line number (0 otherwise).
Fail(msg) == [ok |-> FALSE, err |-> msg, line |-> 0]

LineFail(idx, msg) == [ok |-> FALSE, err |-> msg, line |-> idx]

Ok(v) == [ok |-> TRUE, val |-> v]

\* parse_string after its value.strip()
string_literal(value) ==
    IF Len(value) < 2
         \/ ~(StartsWith(value, Txt(<<"\"">>)) /\ EndsWith(value, Txt(<<"\"">>)))
    THEN Fail("invalid string literal")
    ELSE Ok(SubSeq(value, 2, Len(value) - 1))

parse_string(value) == string_literal(strip(value))

\* The loop of parse_list over the pieces of inner.split(","), from piece i.
RECURSIVE parse_items(_, _, _)
RECURSIVE next_item(_, _, _, _)
parse_items(pieces, i, items) ==
    IF i > Len(pieces) THEN Ok(items)
    ELSE IF strip(pieces[i]) = <<>> THEN Fail("empty list item")
    ELSE next_item(parse_string(pieces[i]), pieces, i, items)

\* items.append(...) and on to the next piece, unless parse_string raised.
next_item(r, pieces, i, items) ==
    IF ~r.ok THEN r ELSE parse_items(pieces, i + 1, Append(items, r.val))

\* parse_list from inner = value[1:-1].strip() on.
list_items(inner) ==
    IF inner = <<>> THEN Ok(<<>>)
    ELSE parse_items(split(inner, Ord[","]), 1, <<>>)

\* parse_list after its value.strip()
list_literal(value) ==
    IF value = Txt(<<"[", "]">>) THEN Ok(<<>>)
    ELSE IF ~(StartsWith(value, Txt(<<"[">>)) /\ EndsWith(value, Txt(<<"]">>)))
    THEN Fail("invalid list syntax")
    ELSE list_items(strip(SubSeq(value, 2, Len(value) - 1)))

parse_list(value) == list_literal(strip(value))

\* Parsed values carry their Python type: str or list (of str).
Str(v) == [t |-> "str", v |-> v]

List(v) == [t |-> "list", v |-> v]

K_name == Txt(<<"n", "a", "m", "e">>)

K_version == Txt(<<"v", "e", "r", "s", "i", "o", "n">>)

K_provides == Txt(<<"p", "r", "o", "v", "i", "d", "e", "s">>)

K_slots == Txt(<<"s", "l", "o", "t", "s">>)

K_requires_caps ==
    Txt(<<"r", "e", "q", "u", "i", "r", "e", "s", "_", "c", "a", "p", "s">>)

K_depends == Txt(<<"d", "e", "p", "e", "n", "d", "s">>)

ALLOWED_KEYS ==
    {K_name, K_version, K_provides, K_slots, K_requires_caps, K_depends}

\* Lines 75-78 of parse_manifest: the value of a key, typed by the key.
parse_value(key, raw, stringKeys) ==
    IF key \in stringKeys THEN parse_string(raw) ELSE parse_list(raw)

\* data[key] = value, unless parsing the value raised.
store(r, key, data, stringKeys) ==
    IF ~r.ok THEN r
    ELSE Ok(data @@ (key :> IF key \in stringKeys THEN Str(r.val)
                            ELSE List(r.val)))

\* A parser without the test for a key seen before.
parse_pair_no_duplicate_check(key, raw, idx, data, allowed, stringKeys) ==
    IF key \notin allowed THEN LineFail(idx, "unknown key")
    ELSE store(parse_value(key, raw, stringKeys), key, data, stringKeys)

\* Lines 69-78: a key and its raw value.
parse_pair(key, raw, idx, data, allowed, stringKeys) ==
    IF key \notin allowed THEN LineFail(idx, "unknown key")
    ELSE IF key \in DOMAIN data THEN LineFail(idx, "duplicate key")
    ELSE store(parse_value(key, raw, stringKeys), key, data, stringKeys)

\* Lines 64-78: one stripped line; the dict after it.
parse_line(stripped, idx, data, allowed, stringKeys) ==
    IF stripped = <<>> \/ Head(stripped) = Ord["#"] THEN Ok(data)
    ELSE IF Ord["="] \notin Range(stripped) THEN LineFail(idx, "missing '='")
    ELSE parse_pair(
             strip(SubSeq(stripped, 1, FirstIn(stripped, {Ord["="]}, 1) - 1)),
             strip(SubSeq(stripped, FirstIn(stripped, {Ord["="]}, 1) + 1,
                          Len(stripped))),
             idx, data, allowed, stringKeys)

\* The loop shared by parse_manifest and parse_contract: the dict built from
\* lines idx.., given the keys allowed and the keys that hold a string.
RECURSIVE parse_lines(_, _, _, _, _)
RECURSIVE next_line(_, _, _, _, _)
parse_lines(lines, idx, data, allowed, stringKeys) ==
    IF idx > Len(lines) THEN Ok(data)
    ELSE next_line(parse_line(strip(lines[idx]), idx, data, allowed, stringKeys),
                   lines, idx, allowed, stringKeys)

\* On to the next line, unless this one raised.
next_line(r, lines, idx, allowed, stringKeys) ==
    IF ~r.ok THEN r ELSE parse_lines(lines, idx + 1, r.val, allowed, stringKeys)

\* dict(): the function with the empty domain.
EmptyDict == [k \in {} |-> Str(<<>>)]

parse_manifest(text) ==
    parse_lines(splitlines(text), 1, EmptyDict, ALLOWED_KEYS,
                {K_name, K_version})

\* dict.get(key, default)
Get(data, key, default) == IF key \in DOMAIN data THEN data[key] ELSE default

(***************************************************************************)
(* The identifier grammars (re.match of an anchored pattern).  A match is  *)
(* computed as the set of positions the pattern can reach: position i      *)
(* means "i characters consumed".                                          *)
(***************************************************************************)
\* [a-z0-9-]
SEGMENT_RE == (97..122) \cup (48..57) \cup {45}

\* \d on str: the decimal digits of Unicode; ASCII, Arabic-Indic, Extended
\* Arabic-Indic and fullwidth digits stand for the whole category.
DIGIT == (48..57) \cup (1632..1641) \cup (1776..1785) \cup (65296..65305)

\* [A-Za-z0-9._-]
TAG == (65..90) \cup (97..122) \cup (48..57) \cup {46, 95, 45}

\* class+ : one or more characters of the class, from any of the positions.
ClassPlus(s, starts, class) ==
    {j \in 1..Len(s) :
        \E i \in starts : i < j /\ \A k \in (i + 1)..j : s[k] \in class}

\* A literal, from any of the positions.
Lit(s, starts, lit) ==
    {i + Len(lit) : i \in {p \in starts :
        p + Len(lit) <= Len(s) /\ SubSeq(s, p + 1, p + Len(lit)) = lit}}

\* (?:class+ sep)* : zero or more repetitions.
RECURSIVE SegSepStar(_, _, _, _)
SegSepStar(s, reach, class, sep) ==
    LET more == reach \cup Lit(s, ClassPlus(s, reach, class), sep) IN
    IF more = reach THEN reach ELSE SegSepStar(s, more, class, sep)

\* (?:sep class+)* : zero or more repetitions.
RECURSIVE SepSegStar(_, _, _, _)
SepSegStar(s, reach, class, sep) ==
    LET more == reach \cup ClassPlus(s, Lit(s, reach, sep), class) IN
    IF more = reach THEN reach ELSE SepSegStar(s, more, class, sep)

\* $ : the end of the string, or just before a newline that ends it.
AtEnd(s, reach) ==
    \/ Len(s) \in reach
    \/ Len(s) >= 1 /\ s[Len(s)] = 10 /\ (Len(s) - 1) \in reach

SERVICE_RE(s) ==
    AtEnd(s, ClassPlus(s,
        SegSepStar(s, Lit(s, {0}, Txt(<<"r", "u", "z", "z", "l", "e", ".">>)),
                   SEGMENT_RE, Txt(<<".">>)),
        SEGMENT_RE))

SLOT_RE(s) ==
    AtEnd(s, ClassPlus(s,
        SegSepStar(s,
            Lit(s, {0}, Txt(<<"r", "u", "z", "z", "l", "e", ".",
                              "s", "l", "o", "t", ".">>)),
            SEGMENT_RE, Txt(<<".">>)),
        SEGMENT_RE))

MODULE_RE(s) ==
    AtEnd(s, SepSegStar(s, ClassPlus(s, {0}, SEGMENT_RE), SEGMENT_RE,
                        Txt(<<"-">>)))

VERSION_RE(s) ==
    LET major == ClassPlus(s, {0}, DIGIT)
        minor == ClassPlus(s, Lit(s, major, Txt(<<".">>)), DIGIT)
        patch == ClassPlus(s, Lit(s, minor, Txt(<<".">>)), DIGIT)
        tag   == ClassPlus(s, Lit(s, patch, Txt(<<"-">>))
                                  \cup Lit(s, patch, Txt(<<"+">>)), TAG)
    IN  AtEnd(s, patch \cup tag)

(***************************************************************************)
(* module_lint.lint_manifest                                               *)
(***************************************************************************)
CAPABILITIES ==
    { Txt(<<"C", "o", "n", "s", "o", "l", "e", "W", "r", "i", "t", "e">>),
      Txt(<<"E", "n", "d", "p", "o", "i", "n", "t", "C", "r", "e", "a", "t", "e">>),
      Txt(<<"S", "h", "m", "C", "r", "e", "a", "t", "e">>),
      Txt(<<"P", "r", "o", "c", "e", "s", "s", "S", "p", "a", "w", "n">>),
      Txt(<<"T", "i", "m", "e", "r">>),
      Txt(<<"F", "s", "R", "o", "o", "t">>),
      Txt(<<"W", "i", "n", "d", "o", "w", "S", "e", "r", "v", "e", "r">>),
      Txt(<<"I", "n", "p", "u", "t", "D", "e", "v", "i", "c", "e">>),
      Txt(<<"G", "p", "u", "D", "e", "v", "i", "c", "e">>) }

\* One diagnostic: its message kind and the value the message quotes.
Diag(kind, arg) == [kind |-> kind, arg |-> arg]

\* A loop that stops at the first item that is not ok.
RECURSIVE EachBad_first_only(_, _, _)
EachBad_first_only(items, good, kind) ==
    IF items = <<>> THEN <<>>
    ELSE IF Head(items) \in good THEN EachBad_first_only(Tail(items), good, kind)
    ELSE <<Diag(kind, Head(items))>>

\* The diagnostics of one "for x in list: if not ok(x): errors.append(...)",
\* given the set of the items that are ok.
RECURSIVE EachBad(_, _, _)
EachBad(items, good, kind) ==
    IF items = <<>> THEN <<>>
    ELSE (IF Head(items) \in good THEN <<>> ELSE <<Diag(kind, Head(items))>>)
             \o EachBad(Tail(items), good, kind)

\* lint_manifest once the text is parsed: lines 94-135.
lint_data(data) ==
    LET missing ==
            (IF K_name \notin DOMAIN data
             THEN <<Diag("missing required", K_name)>> ELSE <<>>)
            \o (IF K_version \notin DOMAIN data
                THEN <<Diag("missing required", K_version)>> ELSE <<>>)
        name == Get(data, K_name, Str(<<>>)).v
        badName == IF name # <<>> /\ ~MODULE_RE(name)
                   THEN <<Diag("invalid module name", name)>> ELSE <<>>
        version == Get(data, K_version, Str(<<>>)).v
        badVersion == IF version # <<>> /\ ~VERSION_RE(version)
                      THEN <<Diag("invalid version", version)>> ELSE <<>>
        provides == Get(data, K_provides, List(<<>>))
        slots == Get(data, K_slots, List(<<>>))
        requires == Get(data, K_requires_caps, List(<<>>))
        depends == Get(data, K_depends, List(<<>>))
        badLists ==
            IF provides.t # "list" \/ slots.t # "list"
            THEN <<Diag("provides/slots must be list", <<>>)>>
            ELSE EachBad(provides.v, {x \in Range(provides.v) : SERVICE_RE(x)},
                         "invalid service")
                     \o EachBad(slots.v, {x \in Range(slots.v) : SLOT_RE(x)},
                                "invalid slot")
        badCaps ==
            IF requires.t = "list"
            THEN EachBad(requires.v, CAPABILITIES, "unknown capability")
            ELSE <<Diag("requires_caps must be list", <<>>)>>
        badDeps ==
            IF depends.t = "list"
            THEN EachBad(depends.v, {x \in Range(depends.v) : MODULE_RE(x)},
                         "invalid dependency")
            ELSE <<Diag("depends must be list", <<>>)>>
    IN  missing \o badName \o badVersion \o badLists \o badCaps \o badDeps

\* lint_manifest on the text read from the file: a grammar error is the one
\* diagnostic returned.
lint_parsed(parsed) ==
    IF ~parsed.ok THEN <<Diag(parsed.err, parsed.line)>>
    ELSE lint_data(parsed.val)

lint_manifest(text) == lint_parsed(parse_manifest(text))

(***************************************************************************)
(* Bytes: struct.pack / struct.unpack_from, bytes.decode("utf-8"), slices  *)
(***************************************************************************)
RECURSIVE Pow(_, _)
Pow(b, n) == IF n = 0 THEN 1 ELSE b * Pow(b, n - 1)

\* struct.pack("<H", n) and struct.pack("<I", n): width bytes, little-endian
\* (n is below 256^width for every length the model packs).
pack(n, width) == [i \in 1..width |-> (n \div Pow(256, i - 1)) % 256]

\* The little-endian value of width bytes of data from offset.
RECURSIVE le_value(_, _, _)
le_value(data, offset, width) ==
    IF width = 0 THEN 0
    ELSE data[offset + 1] + 256 * le_value(data, offset + 1, width - 1)

\* A length no buffer of the model reaches.  Python's integers are unbounded
\* and TLC's are 32-bit: a u32 of at least 2^29 is read as 2^29.  The
\* code only compares sums of these lengths with len(data), and for that
\* every value from 2^29 up behaves alike.
HUGE == Pow(2, 29)

\* struct.unpack_from("<H" / "<I", data, offset)[0]
unpack_from(data, offset, width) ==
    IF width = 4 /\ data[offset + 4] >= 32 THEN HUGE
    ELSE le_value(data, offset, width)

\* data[lo:hi] of Python: both ends clamped to the buffer.
Slice(data, lo, hi) ==
    LET h == IF hi > Len(data) THEN Len(data) ELSE hi IN
    IF lo >= h THEN <<>> ELSE SubSeq(data, lo + 1, h)

IsCont(b) == b \in 128..191

\* bytes.decode("utf-8"), strict: the code points, or a failure on the first
\* ill-formed sequence (overlong forms, surrogates, values above U+10FFFF
\* and stray or missing continuation bytes are ill-formed).
RECURSIVE decode_utf8(_, _, _)
decode_utf8(b, i, out) ==
    IF i > Len(b) THEN Ok(out)
    ELSE LET b1 == b[i]
             have(n) == i + n <= Len(b)
         IN
         IF b1 < 128 THEN decode_utf8(b, i + 1, Append(out, b1))
         ELSE IF b1 \in 194..223 /\ have(1) /\ IsCont(b[i + 1])
         THEN decode_utf8(b, i + 2,
                  Append(out, (b1 - 192) * 64 + (b[i + 1] - 128)))
         ELSE IF b1 \in 224..239 /\ have(2) /\ IsCont(b[i + 1]) /\ IsCont(b[i + 2])
                  /\ (b1 = 224 => b[i + 1] >= 160)
                  /\ (b1 = 237 => b[i + 1] <= 159)
         THEN decode_utf8(b, i + 3,
                  Append(out, (b1 - 224) * 4096 + (b[i + 1] - 128) * 64
                                  + (b[i + 2] - 128)))
         ELSE IF b1 \in 240..244 /\ have(3) /\ IsCont(b[i + 1]) /\ IsCont(b[i + 2])
                  /\ IsCont(b[i + 3])
                  /\ (b1 = 240 => b[i + 1] >= 144)
                  /\ (b1 = 244 => b[i + 1] <= 143)
         THEN decode_utf8(b, i + 4,
                  Append(out, (b1 - 240) * 262144 + (b[i + 1] - 128) * 4096
                                  + (b[i + 2] - 128) * 64 + (b[i + 3] - 128)))
         ELSE Fail("manifest not utf-8")

\* manifest_bytes.decode("utf-8") with its UnicodeDecodeError turned into the
\* ValueError of lines 117-120.
decode(bytes) == decode_utf8(bytes, 1, <<>>)

(***************************************************************************)
(* The signer: hmac.new(key, msg, hashlib.sha256).digest()                 *)
(*                                                                         *)
(* HMAC-SHA-256 is library code.  It is modelled as a keyed digest of      *)
(* SIGNATURE_LEN bytes that mixes the key, the message and their lengths   *)
(* position by position; like the real function it is deterministic and    *)
(* depends on every byte of both arguments, and two different (key,        *)
(* message) pairs of the sizes the model uses never share a digest (the    *)
(* collision resistance the real function is relied on for).              *)
(***************************************************************************)
SIGNATURE_LEN == 32

RECURSIVE MixAt(_, _)
MixAt(stream, j) ==
    IF j > Len(stream) THEN 0
    ELSE (stream[j] * 167 + 13) + MixAt(stream, j + SIGNATURE_LEN)

hmac_sha256(key, msg) ==
    LET stream == <<Len(key) % 256, Len(msg) % 256>> \o key \o msg IN
    [i \in 1..SIGNATURE_LEN |-> (MixAt(stream, i) + 31 * i) % 256]

(***************************************************************************)
(* The bundle codec: pack_module.build_bundle, market_scan.parse_bundle    *)
(***************************************************************************)
MAGIC == Txt(<<"R", "M", "O", "D">>)

VERSION_V1 == 1

VERSION_V2 == 2

\* pack_module.VERSION
VERSION == 2

HEADER_LEN == 4 + 2 + 4 + 4

\* A packer that writes the two length fields in the wrong order.
build_bundle_lengths_swapped(manifest, payload, key) ==
    LET header == MAGIC \o pack(VERSION, 2) \o pack(Len(payload), 4)
                      \o pack(Len(manifest), 4)
        signature == hmac_sha256(key, manifest \o payload)
    IN  header \o manifest \o payload \o signature

build_bundle(manifest, payload, key) ==
    LET header == MAGIC \o pack(VERSION, 2) \o pack(Len(manifest), 4)
                      \o pack(Len(payload), 4)
        signature == hmac_sha256(key, manifest \o payload)
    IN  header \o manifest \o payload \o signature

\* The version-1 container of the format, which no tool of the repository
\* writes: header, manifest, payload and nothing after.
bundle_v1(manifest, payload) ==
    MAGIC \o pack(VERSION_V1, 2) \o pack(Len(manifest), 4)
        \o pack(Len(payload), 4) \o manifest \o payload

\* A truncation check that lets a buffer one byte short through.
IsTruncatedOffByOne(pend, data) == pend > Len(data) + 1

\* Line 111: the declared lengths run past the buffer.
IsTruncated(pend, data) == pend > Len(data)

\* A version-1 length check that tolerates bytes after the payload.
V1LengthAtLeast(pend, data) == pend <= Len(data)

\* Line 124: a version-1 buffer ends where its payload ends.
V1LengthOk(pend, data) == pend = Len(data)

\* Line 128: a version-2 buffer ends where its signature ends.
V2LengthOk(sig_end, data) == sig_end = Len(data)

\* Line 132: signature != expected.
SignatureMismatch(signature, expected) == signature # expected

\* Lines 137-155: the entry built from the parsed manifest.
entry_of(manifest, verified, file) ==
    IF Get(manifest, K_name, Str(<<>>)).v = <<>>
         \/ Get(manifest, K_version, Str(<<>>)).v = <<>>
    THEN Fail("missing name/version")
    ELSE Ok([name     |-> Get(manifest, K_name, Str(<<>>)).v,
             version  |-> Get(manifest, K_version, Str(<<>>)).v,
             provides |-> Get(manifest, K_provides, List(<<>>)).v,
             slots    |-> Get(manifest, K_slots, List(<<>>)).v,
             caps     |-> Get(manifest, K_requires_caps, List(<<>>)).v,
             depends  |-> Get(manifest, K_depends, List(<<>>)).v,
             verified |-> verified,
             file     |-> file])

entry_of_parsed(parsed, verified, file) ==
    IF ~parsed.ok THEN parsed ELSE entry_of(parsed.val, verified, file)

\* Lines 136-155: parse_manifest, then the entry.
make_entry(manifest_text, verified, file) ==
    entry_of_parsed(parse_manifest(manifest_text), verified, file)

\* Lines 106-110: where the header says the manifest and the payload end.
manifest_end(data) == HEADER_LEN + unpack_from(data, 6, 4)

payload_end(data) == manifest_end(data) + unpack_from(data, 10, 4)

\* Lines 114-115
manifest_bytes(data) == Slice(data, HEADER_LEN, manifest_end(data))

payload_bytes(data) == Slice(data, manifest_end(data), payload_end(data))

\* Lines 127-134: the signature check of a version-2 buffer.
verify_v2(data, key, sig_end) ==
    IF ~V2LengthOk(sig_end, data) THEN Fail("invalid signature length")
    ELSE IF SignatureMismatch(
                Slice(data, payload_end(data), sig_end),
                hmac_sha256(key, manifest_bytes(data) \o payload_bytes(data)))
    THEN Fail("signature mismatch")
    ELSE Ok(TRUE)

\* Lines 122-134: the value of `verified`, or the error raised.
verify(data, key, version) ==
    IF version = VERSION_V1
    THEN IF ~V1LengthOk(payload_end(data), data)
         THEN Fail("trailing bytes in v1 bundle")
         ELSE Ok(FALSE)
    ELSE verify_v2(data, key, payload_end(data) + SIGNATURE_LEN)

\* Lines 117-155 in their order: the manifest is decoded, then the length
\* and signature are checked, then the manifest text is parsed.
decoded_then_verified(manifest_text, verified, file) ==
    IF ~manifest_text.ok THEN manifest_text
    ELSE IF ~verified.ok THEN verified
    ELSE make_entry(manifest_text.val, verified.val, file)

\* Lines 103-155, once the buffer is known to hold a header with the magic.
parse_versioned(data, key, file, version) ==
    IF version \notin {VERSION_V1, VERSION_V2} THEN Fail("unsupported version")
    ELSE IF IsTruncated(payload_end(data), data) THEN Fail("truncated bundle")
    ELSE decoded_then_verified(decode(manifest_bytes(data)),
                               verify(data, key, version), file)

\* parse_bundle on the bytes read from the file named `file`.
parse_bundle(data, key, file) ==
    IF Len(data) < HEADER_LEN THEN Fail("bundle too small")
    ELSE IF Slice(data, 0, 4) # MAGIC THEN Fail("invalid magic")
    ELSE parse_versioned(data, key, file, unpack_from(data, 4, 2))

(***************************************************************************)
(* One bundle file: packed, possibly damaged on disk, then scanned         *)
(***************************************************************************)
MaxPayloadLen == 1

MaxExtra == 1

\* The bytes payloads are made of.
PayloadBytes == {0, 255}

RECURSIVE SeqsUpTo(_, _)
SeqsUpTo(S, n) ==
    IF n = 0 THEN {<<>>}
    ELSE LET shorter == SeqsUpTo(S, n - 1) IN
         shorter \cup {Append(q, x) : q \in {r \in shorter : Len(r) = n - 1}, x \in S}

Payloads == SeqsUpTo(PayloadBytes, MaxPayloadLen)

\* name="a" / version="1"
M_plain ==
    Txt(<<"n", "a", "m", "e", "=", "\"", "a", "\"", "\n",
          "v", "e", "r", "s", "i", "o", "n", "=", "\"", "1", "\"">>)

\* The same with the two-byte UTF-8 form of U+00E9 as the name.
M_accent ==
    Txt(<<"n", "a", "m", "e", "=", "\"">>) \o <<195, 169>>
        \o Txt(<<"\"", "\n", "v", "e", "r", "s", "i", "o", "n", "=", "\"", "1", "\"">>)

\* The manifest files offered to the packer: two manifests, a manifest
\* without a version, text that is no manifest, bytes that are no UTF-8,
\* and the empty file.
Manifests ==
    { M_plain, M_accent,
      Txt(<<"n", "a", "m", "e", "=", "\"", "a", "\"">>),
      Txt(<<"x">>), <<255>>, <<>> }

Keys == {Txt(<<"k">>), Txt(<<"r", "u", "z", "z", "l", "e">>)}

NoKey == <<>>

NoEdit == [kind |-> "none", at |-> 0, byte |-> 0]

NoResult == [ok |-> FALSE, err |-> "not scanned", line |-> 0]

FILE == Txt(<<"m", ".", "r", "p", "i", "e", "c", "e">>)

\* The variables of the index builder while no run of it is modelled.
Absent == <<-1>>

NoEnv == <<-1>>

NoErr == [kind |-> "none", arg |-> <<>>]

IndexIdle ==
    /\ inputs = <<>>
    /\ env_key = NoEnv
    /\ bundles = <<>>
    /\ pos = 0
    /\ entries = <<>>
    /\ names = {}
    /\ pc = "idle"
    /\ rc = -1
    /\ err = NoErr
    /\ index = Absent
    /\ wrote = FALSE
    /\ reordered = FALSE
    /\ prev_entries = <<>>
    /\ prev_index = Absent

LintIdle ==
    /\ toml = <<>>
    /\ diags = <<>>
    /\ lint_pc = "idle"

CodecInit ==
    /\ src_manifest \in Manifests
    /\ src_payload \in Payloads
    /\ sign_key = NoKey
    /\ fmt = 0
    /\ file_bytes = <<>>
    /\ edit = NoEdit
    /\ scan_key = NoKey
    /\ result = NoResult
    /\ stage = "input"
    /\ IndexIdle
    /\ LintIdle

\* pack_module.main with the key of the environment: an empty manifest or
\* payload ends the run before anything is written.
PackModule ==
    /\ stage = "input"
    /\ \E key \in Keys :
          /\ sign_key' = key
          /\ IF src_manifest = <<>> \/ src_payload = <<>>
             THEN /\ stage' = "rejected"
                  /\ UNCHANGED <<file_bytes, fmt>>
             ELSE /\ file_bytes' = build_bundle(src_manifest, src_payload, key)
                  /\ fmt' = VERSION
                  /\ stage' = "packed"
    /\ UNCHANGED <<src_manifest, src_payload, edit, scan_key, result>>
    /\ UNCHANGED <<indexVars, lintVars>>

\* A version-1 bundle of the same manifest and payload is put in place.
PlaceV1 ==
    /\ stage = "input"
    /\ file_bytes' = bundle_v1(src_manifest, src_payload)
    /\ fmt' = VERSION_V1
    /\ stage' = "packed"
    /\ UNCHANGED <<src_manifest, src_payload, sign_key, edit, scan_key, result>>
    /\ UNCHANGED <<indexVars, lintVars>>

\* The replacement values tried for a byte that holds old.
FlipValues(old) == {0, 255, (old + 1) % 256} \ {old}

\* One byte of the file changes.
FlipByte ==
    /\ stage = "packed"
    /\ \E at \in 0..(Len(file_bytes) - 1) :
       \E b \in FlipValues(file_bytes[at + 1]) :
          /\ file_bytes' = [file_bytes EXCEPT ![at + 1] = b]
          /\ edit' = [kind |-> "flip", at |-> at, byte |-> b]
    /\ stage' = "edited"
    /\ UNCHANGED <<src_manifest, src_payload, sign_key, fmt, scan_key, result>>
    /\ UNCHANGED <<indexVars, lintVars>>

\* The file is cut to its first n bytes.
Truncate ==
    /\ stage = "packed"
    /\ \E n \in 0..(Len(file_bytes) - 1) :
          /\ file_bytes' = SubSeq(file_bytes, 1, n)
          /\ edit' = [kind |-> "cut", at |-> n, byte |-> 0]
    /\ stage' = "edited"
    /\ UNCHANGED <<src_manifest, src_payload, sign_key, fmt, scan_key, result>>
    /\ UNCHANGED <<indexVars, lintVars>>

\* Bytes are added after the end of the file.
Extend ==
    /\ stage = "packed"
    /\ \E n \in 1..MaxExtra :
          /\ file_bytes' = file_bytes \o [i \in 1..n |-> 0]
          /\ edit' = [kind |-> "extend", at |-> n, byte |-> 0]
    /\ stage' = "edited"
    /\ UNCHANGED <<src_manifest, src_payload, sign_key, fmt, scan_key, result>>
    /\ UNCHANGED <<indexVars, lintVars>>

\* market_scan.parse_bundle on the file, under some key.
Scan ==
    /\ stage \in {"packed", "edited"}
    /\ \E key \in Keys :
          /\ scan_key' = key
          /\ result' = parse_bundle(file_bytes, key, FILE)
    /\ stage' = "parsed"
    /\ UNCHANGED <<src_manifest, src_payload, sign_key, fmt, file_bytes, edit>>
    /\ UNCHANGED <<indexVars, lintVars>>

CodecNext ==
    \/ PackModule
    \/ PlaceV1
    \/ FlipByte
    \/ Truncate
    \/ Extend
    \/ Scan

SpecCodec == CodecInit /\ [][CodecNext]_vars

(***************************************************************************)
(* Properties of the codec                                                 *)
(***************************************************************************)
\* The file as it was written, before anything happened to it.
Original ==
    IF fmt = VERSION_V2 THEN build_bundle(src_manifest, src_payload, sign_key)
    ELSE bundle_v1(src_manifest, src_payload)

\* The file as written is a bundle that parse_bundle accepts.
WellFormed == fmt # 0 /\ parse_bundle(Original, sign_key, FILE).ok

\* The packed manifest is UTF-8 text that parse_manifest accepts, with a
\* non-empty name and version.
ValidManifest ==
    /\ decode(src_manifest).ok
    /\ make_entry(decode(src_manifest).val, TRUE, FILE).ok

\* A bundle packed by pack_module and scanned, untouched, under its own key.
RoundTrip ==
    /\ stage = "parsed"
    /\ fmt = VERSION
    /\ edit = NoEdit
    /\ scan_key = sign_key
    /\ src_manifest # <<>>
    /\ src_payload # <<>>

\* C1 as stated: every non-empty manifest and payload, packed under any key,
\* is decoded by parse_bundle under that key without error, verified, with
\* the manifest and payload bytes recovered.
C1_RoundTripAnyManifest ==
    RoundTrip =>
        /\ result.ok
        /\ result.val.verified
        /\ manifest_bytes(file_bytes) = src_manifest
        /\ payload_bytes(file_bytes) = src_payload

\* C1 amended: when the manifest is UTF-8 text that parse_manifest accepts
\* with a non-empty name and version, parse_bundle returns, without error,
\* the entry of that manifest text with verified = true, and the manifest
\* and payload slices it takes from the bundle are the packed bytes.
C1_RoundTripValidManifest ==
    (RoundTrip /\ ValidManifest) =>
        /\ result = make_entry(decode(src_manifest).val, TRUE, FILE)
        /\ result.ok
        /\ result.val.verified
        /\ manifest_bytes(file_bytes) = src_manifest
        /\ payload_bytes(file_bytes) = src_payload

C1_Witness ==
    /\ RoundTrip
    /\ src_manifest = M_accent
    /\ result.ok
    /\ result.val.verified
    /\ result.val.name = <<233>>

\* C2 as stated: changing one byte of the manifest, payload or signature
\* region of a well-formed version-2 bundle makes parse_bundle fail with
\* "signature mismatch", and with no other error.
C2_TamperIsSignatureMismatch ==
    (/\ stage = "parsed"
     /\ fmt = VERSION_V2
     /\ WellFormed
     /\ scan_key = sign_key
     /\ edit.kind = "flip"
     /\ edit.at >= HEADER_LEN)
        => (~result.ok /\ result.err = "signature mismatch")

\* A well-formed bundle cut to its first edit.at bytes, then scanned.
CutAndScanned == stage = "parsed" /\ WellFormed /\ edit.kind = "cut"

\* C3 as stated: a well-formed bundle cut short fails with "truncated
\* bundle" or a format error, never with another error.
C3_TruncationErrorKinds ==
    CutAndScanned =>
        /\ ~result.ok
        /\ result.err \in {"truncated bundle", "bundle too small",
                           "invalid magic", "unsupported version"}

\* C3 amended: a well-formed bundle cut short never yields an entry; it fails
\* with "truncated bundle" or a format error, except that a version-2 bundle
\* cut inside its signature region (at or after the end of the payload)
\* fails with "invalid signature length".
C3_TruncationFails ==
    CutAndScanned =>
        /\ ~result.ok
        /\ IF fmt = VERSION_V2 /\ edit.at >= payload_end(Original)
           THEN result.err = "invalid signature length"
           ELSE result.err \in {"truncated bundle", "bundle too small",
                                "invalid magic", "unsupported version"}

C3_Witness ==
    /\ CutAndScanned
    /\ fmt = VERSION_V2
    /\ edit.at > payload_end(Original)
    /\ result.err = "invalid signature length"

\* C4: whenever parse_bundle returns an entry, the buffer is exactly the
\* header, the manifest and the payload its header declares, plus the 32
\* signature bytes for version 2: no buffer with bytes missing or left over
\* is accepted.
C4_ExactLength ==
    (stage = "parsed" /\ result.ok) =>
        Len(file_bytes) =
            HEADER_LEN + unpack_from(file_bytes, 6, 4)
                + unpack_from(file_bytes, 10, 4)
                + (IF unpack_from(file_bytes, 4, 2) = VERSION_V2
                   THEN SIGNATURE_LEN ELSE 0)

C4_Witness ==
    /\ stage = "parsed"
    /\ result.ok
    /\ fmt = VERSION_V1
    /\ edit.kind = "flip"
    /\ Len(file_bytes) = HEADER_LEN + Len(src_manifest) + Len(src_payload)

(***************************************************************************)
(* The index builder: market_scan.main                                     *)
(***************************************************************************)
DEFAULT_KEY == Txt(<<"r", "u", "z", "z", "l", "e", "-", "d", "e", "v", "-", "k", "e", "y">>)

\* The UTF-8 bytes of one code point.
encode_code_point(c) ==
    IF c < 128 THEN <<c>>
    ELSE IF c < 2048 THEN <<192 + (c \div 64), 128 + (c % 64)>>
    ELSE IF c < 65536
    THEN <<224 + (c \div 4096), 128 + ((c \div 64) % 64), 128 + (c % 64)>>
    ELSE <<240 + (c \div 262144), 128 + ((c \div 4096) % 64),
           128 + ((c \div 64) % 64), 128 + (c % 64)>>

\* str.encode("utf-8")
encode(text) == Flatten([i \in 1..Len(text) |-> encode_code_point(text[i])])

\* load_key given os.environ.get("RUZZLE_MARKETPLACE_KEY"), NoEnv for None.
load_key(raw) == IF raw = NoEnv THEN DEFAULT_KEY ELSE encode(raw)

\* Path.name: the last component of the path.
RECURSIVE PathName(_)
PathName(path) ==
    LET i == FirstIn(path, {Ord["/"]}, 1) IN
    IF i = 0 THEN path ELSE PathName(SubSeq(path, i + 1, Len(path)))

\* Index of the last element of s equal to c, 0 when there is none.
RECURSIVE LastIndex(_, _, _)
LastIndex(s, c, i) ==
    IF i = 0 THEN 0 ELSE IF s[i] = c THEN i ELSE LastIndex(s, c, i - 1)

\* Path.suffix: the last component from its last dot, when that dot is
\* neither its first nor its last character.
Suffix(path) ==
    LET name == PathName(path)
        i == LastIndex(name, Ord["."], Len(name))
    IN  IF 1 < i /\ i < Len(name) THEN SubSeq(name, i, Len(name)) ELSE <<>>

RPIECE == Txt(<<".", "r", "p", "i", "e", "c", "e">>)

\* sorted() of a set of names or paths, by code point.
RECURSIVE SortedSeq(_)
SortedSeq(S) ==
    IF S = {} THEN <<>>
    ELSE LET least == CHOOSE x \in S : \A y \in S \ {x} : StrLess(x, y) IN
         <<least>> \o SortedSeq(S \ {least})

\* discover_inputs over the paths from i on, given what is on disk.
RECURSIVE discover_from(_, _, _, _)
discover_from(disk, paths, i, found) ==
    IF i > Len(paths) THEN Ok(found)
    ELSE LET path == paths[i] IN
         IF disk[path].kind = "dir"
         THEN discover_from(disk, paths, i + 1,
                  found \o SortedSeq({c \in disk[path].children :
                                         Suffix(c) = RPIECE}))
         ELSE IF Suffix(path) = RPIECE
         THEN discover_from(disk, paths, i + 1, Append(found, path))
         ELSE [ok |-> FALSE, err |-> "unsupported input", path |-> path]

discover_inputs(disk, paths) == discover_from(disk, paths, 1, <<>>)

\* sep.join(pieces)
RECURSIVE Join(_, _)
Join(pieces, sep) ==
    IF pieces = <<>> THEN <<>>
    ELSE IF Len(pieces) = 1 THEN pieces[1]
    ELSE pieces[1] \o sep \o Join(Tail(pieces), sep)

Quoted(item) == Txt(<<"\"">>) \o item \o Txt(<<"\"">>)

format_list(items) ==
    IF items = <<>> THEN Txt(<<"[", "]">>)
    ELSE Txt(<<"[">>)
             \o Join([i \in 1..Len(items) |-> Quoted(items[i])], Txt(<<",", " ">>))
             \o Txt(<<"]">>)

\* The lines write_index adds for one entry.
entry_lines(entry) ==
    << <<>>,
       Txt(<<"[", "[", "p", "i", "e", "c", "e", "]", "]">>),
       Txt(<<"n", "a", "m", "e", " ", "=", " ">>) \o Quoted(entry.name),
       Txt(<<"v", "e", "r", "s", "i", "o", "n", " ", "=", " ">>) \o Quoted(entry.version),
       Txt(<<"s", "l", "o", "t", "s", " ", "=", " ">>) \o format_list(entry.slots),
       Txt(<<"c", "a", "p", "s", " ", "=", " ">>) \o format_list(entry.caps),
       Txt(<<"v", "e", "r", "i", "f", "i", "e", "d", " ", "=", " ">>)
           \o (IF entry.verified THEN Txt(<<"t", "r", "u", "e">>)
               ELSE Txt(<<"f", "a", "l", "s", "e">>)),
       Txt(<<"p", "r", "o", "v", "i", "d", "e", "s", " ", "=", " ">>)
           \o format_list(entry.provides),
       Txt(<<"d", "e", "p", "e", "n", "d", "s", " ", "=", " ">>) \o format_list(entry.depends),
       Txt(<<"f", "i", "l", "e", " ", "=", " ">>) \o Quoted(entry.file) >>

\* The text write_index writes to the output file.
write_index(es) ==
    LET lines == <<Txt(<<"#", " ", "A", "u", "t", "o", "-",
                       "g", "e", "n", "e", "r", "a", "t", "e", "d", " ",
                       "b", "y", " ", "t", "o", "o", "l", "s", "/",
                       "m", "a", "r", "k", "e", "t", "_", "s", "c", "a", "n",
                       ".", "p", "y">>)>>
                     \o Flatten([i \in 1..Len(es) |-> entry_lines(es[i])])
    IN  Join(lines, Txt(<<"\n">>)) \o Txt(<<"\n">>)

\* An insertion that puts the greater names first.
RECURSIVE insert_by_name_descending(_, _)
insert_by_name_descending(sorted, e) ==
    IF sorted = <<>> THEN <<e>>
    ELSE IF StrLess(Head(sorted).name, e.name) THEN <<e>> \o sorted
    ELSE <<Head(sorted)>> \o insert_by_name_descending(Tail(sorted), e)

\* The entries left in the order the loop appended them.
sort_by_name_left_as_appended(es) == es

\* list.sort(key=lambda item: str(item["name"])): stable, ascending by name.
RECURSIVE insert_by_name(_, _)
insert_by_name(sorted, e) ==
    IF sorted = <<>> THEN <<e>>
    ELSE IF StrLess(e.name, Head(sorted).name) THEN <<e>> \o sorted
    ELSE <<Head(sorted)>> \o insert_by_name(Tail(sorted), e)

RECURSIVE sort_from(_, _, _)
sort_from(es, i, sorted) ==
    IF i > Len(es) THEN sorted
    ELSE sort_from(es, i + 1, insert_by_name(sorted, es[i]))

sort_by_name(es) == sort_from(es, 1, <<>>)

(***************************************************************************)
(* What is on disk when market_scan runs                                   *)
(***************************************************************************)
MaxInputs == 3

File(bytes) == [kind |-> "file", bytes |-> bytes]

Dir(children) == [kind |-> "dir", children |-> children]

\* The manifest text  name="<name>" / version="<version>".
manifest_of(name, version) ==
    Txt(<<"n", "a", "m", "e", "=", "\"">>) \o name
        \o Txt(<<"\"", "\n", "v", "e", "r", "s", "i", "o", "n", "=", "\"">>)
        \o version \o Txt(<<"\"">>)

\* The value RUZZLE_MARKETPLACE_KEY takes when it is set.
OTHER_KEY == Txt(<<"k">>)

P_x == Txt(<<"x", ".", "r", "p", "i", "e", "c", "e">>)

P_y == Txt(<<"y", ".", "r", "p", "i", "e", "c", "e">>)

P_w == Txt(<<"w", ".", "r", "p", "i", "e", "c", "e">>)

P_v == Txt(<<"v", ".", "r", "p", "i", "e", "c", "e">>)

P_notes == Txt(<<"n", "o", "t", "e", "s", ".", "t", "x", "t">>)

P_mods == Txt(<<"m", "o", "d", "s">>)

P_mods_m == Txt(<<"m", "o", "d", "s", "/", "m", ".", "r", "p", "i", "e", "c", "e">>)

P_mods_n == Txt(<<"m", "o", "d", "s", "/", "n", ".", "r", "p", "i", "e", "c", "e">>)

P_mods_readme == Txt(<<"m", "o", "d", "s", "/", "r", "e", "a", "d", "m", "e", ".", "t", "x", "t">>)

\* Bundles of modules b, a, a (again, another version), c, ab and B; v.rpiece
\* is signed with the other key, w.rpiece, y.rpiece and mods/m.rpiece are
\* unsigned version-1 bundles.
Disk ==
    P_x :> File(build_bundle(manifest_of(Txt(<<"b">>), Txt(<<"1">>)), <<1>>,
                             DEFAULT_KEY)) @@
    P_y :> File(bundle_v1(manifest_of(Txt(<<"a">>), Txt(<<"1">>)), <<2>>)) @@
    P_w :> File(bundle_v1(manifest_of(Txt(<<"a">>), Txt(<<"2">>)), <<3>>)) @@
    P_v :> File(build_bundle(manifest_of(Txt(<<"c">>), Txt(<<"1">>)), <<4>>,
                             OTHER_KEY)) @@
    P_notes :> File(<<>>) @@
    P_mods :> Dir({P_mods_m, P_mods_n, P_mods_readme}) @@
    P_mods_m :> File(bundle_v1(manifest_of(Txt(<<"a", "b">>), Txt(<<"1">>)),
                               <<5>>)) @@
    P_mods_n :> File(build_bundle(manifest_of(Txt(<<"B">>), Txt(<<"1">>)), <<6>>,
                                  DEFAULT_KEY)) @@
    P_mods_readme :> File(<<>>)

\* The paths a run may be given as --input.
InputPaths == {P_x, P_y, P_w, P_v, P_notes, P_mods}

\* The lists of n different elements of S.
Arrangements(S, n) ==
    {q \in [1..n -> S] : \A i, j \in 1..n : i # j => q[i] # q[j]}

InputLists == UNION {Arrangements(InputPaths, n) : n \in 1..MaxInputs}

IndexInit ==
    /\ inputs \in InputLists
    /\ env_key \in {NoEnv, OTHER_KEY}
    /\ bundles = <<>>
    /\ pos = 0
    /\ entries = <<>>
    /\ names = {}
    /\ pc = "start"
    /\ rc = -1
    /\ err = NoErr
    /\ index = Absent
    /\ wrote = FALSE
    /\ reordered = FALSE
    /\ prev_entries = <<>>
    /\ prev_index = Absent

\* Lines 217-221: discover_inputs; its ValueError for a path that is neither
\* a directory nor a .rpiece file is not caught and ends the run.
MainStart ==
    /\ pc = "start"
    /\ \E found \in {discover_inputs(Disk, inputs)} :
       IF found.ok
       THEN /\ bundles' = found.val
            /\ pc' = "loop"
            /\ UNCHANGED <<rc, err>>
       ELSE /\ err' = [kind |-> found.err, arg |-> found.path]
            /\ rc' = 1
            /\ pc' = "done"
            /\ UNCHANGED bundles
    /\ UNCHANGED <<inputs, env_key, pos, entries, names, index, wrote, reordered,
                   prev_entries, prev_index>>
    /\ UNCHANGED <<codecVars, lintVars>>

\* A loop body that leaves a bundle out when it fails to parse.
after_bundle_skipping(r, path, seen, es) ==
    IF ~r.ok
    THEN [stop |-> FALSE, err |-> NoErr, names |-> seen, entries |-> es]
    ELSE IF r.val.name \in seen
    THEN [stop |-> TRUE,
          err |-> [kind |-> "duplicate module name", arg |-> r.val.name],
          names |-> seen, entries |-> es]
    ELSE [stop |-> FALSE, err |-> NoErr,
          names |-> seen \cup {r.val.name}, entries |-> Append(es, r.val)]

\* A loop body without the check of the names seen.
after_bundle_no_names(r, path, seen, es) ==
    IF ~r.ok
    THEN [stop |-> TRUE,
          err |-> [kind |-> "bundle error", arg |-> <<path, r.err, r.line>>],
          names |-> seen, entries |-> es]
    ELSE [stop |-> FALSE, err |-> NoErr,
          names |-> seen \cup {r.val.name}, entries |-> Append(es, r.val)]

\* Lines 224-233, the loop body once parse_bundle has raised or returned r:
\* whether main returns 1 here and with what message, else the names and
\* entries it goes on with.
after_bundle(r, path, seen, es) ==
    IF ~r.ok
    THEN [stop |-> TRUE,
          err |-> [kind |-> "bundle error", arg |-> <<path, r.err, r.line>>],
          names |-> seen, entries |-> es]
    ELSE IF r.val.name \in seen
    THEN [stop |-> TRUE,
          err |-> [kind |-> "duplicate module name", arg |-> r.val.name],
          names |-> seen, entries |-> es]
    ELSE [stop |-> FALSE, err |-> NoErr,
          names |-> seen \cup {r.val.name}, entries |-> Append(es, r.val)]

\* parse_bundle on a bundle file of the disk, under the key of the run.
scan(path) ==
    parse_bundle(Disk[path].bytes, load_key(env_key), PathName(path))

\* One pass through the loop of lines 223-233.
MainIter ==
    /\ pc = "loop"
    /\ pos < Len(bundles)
    /\ \E next \in {after_bundle(scan(bundles[pos + 1]), bundles[pos + 1],
                                 names, entries)} :
           /\ names' = next.names
           /\ entries' = next.entries
           /\ err' = next.err
           /\ IF next.stop
              THEN /\ rc' = 1
                   /\ pc' = "done"
                   /\ UNCHANGED pos
              ELSE /\ pos' = pos + 1
                   /\ UNCHANGED <<rc, pc>>
    /\ UNCHANGED <<inputs, env_key, bundles, index, wrote, reordered,
                   prev_entries, prev_index>>
    /\ UNCHANGED <<codecVars, lintVars>>

\* Lines 235-238: the loop is through; sort, write the index, return 0.
MainWrite ==
    /\ pc = "loop"
    /\ pos = Len(bundles)
    /\ entries' = sort_by_name(entries)
    /\ index' = write_index(entries')
    /\ wrote' = TRUE
    /\ rc' = 0
    /\ pc' = "done"
    /\ UNCHANGED <<inputs, env_key, bundles, pos, names, err, reordered,
                   prev_entries, prev_index>>
    /\ UNCHANGED <<codecVars, lintVars>>

\* The orders a list can be put in.
Orders(list) ==
    {q \in [1..Len(list) -> Range(list)] : Range(q) = Range(list)}

\* The tool is run again on the same paths, given in any order.
Rescan ==
    /\ pc = "done"
    /\ \E order \in Orders(inputs) :
          /\ inputs' = order
          /\ reordered' = (order # inputs)
    /\ prev_entries' = IF wrote THEN entries ELSE prev_entries
    /\ prev_index' = index
    /\ bundles' = <<>>
    /\ pos' = 0
    /\ entries' = <<>>
    /\ names' = {}
    /\ rc' = -1
    /\ err' = NoErr
    /\ wrote' = FALSE
    /\ pc' = "start"
    /\ UNCHANGED <<env_key, index>>
    /\ UNCHANGED <<codecVars, lintVars>>


CodecIdle ==
    /\ src_manifest = <<>>
    /\ src_payload = <<>>
    /\ sign_key = NoKey
    /\ fmt = 0
    /\ file_bytes = <<>>
    /\ edit = NoEdit
    /\ scan_key = NoKey
    /\ result = NoResult
    /\ stage = "idle"

Init == IndexInit /\ CodecIdle /\ LintIdle

Next ==
    \/ MainStart
    \/ MainIter
    \/ MainWrite
    \/ Rescan

Spec == Init /\ [][Next]_vars

(***************************************************************************)
(* Properties of the index builder                                         *)
(***************************************************************************)
\* The run has discovered its bundles.
Discovered == pc = "loop" \/ (pc = "done" /\ bundles # <<>>)

\* parse_bundle raises for the i-th discovered bundle.
Fails(i) == ~scan(bundles[i]).ok

\* The module name the i-th discovered bundle decodes to.
NameOf(i) == scan(bundles[i]).val.name

\* The i-th discovered bundle decodes to a name that an earlier one has.
Repeats(i) ==
    /\ ~Fails(i)
    /\ \E h \in 1..(i - 1) : ~Fails(h) /\ NameOf(h) = NameOf(i)

\* The first of the positions, one past the batch when there is none.
FirstAt(positions) ==
    IF positions = {} THEN Len(bundles) + 1
    ELSE CHOOSE i \in positions : \A h \in positions : i <= h

FirstBad == FirstAt({i \in 1..Len(bundles) : Fails(i)})

FirstDup == FirstAt({i \in 1..Len(bundles) : Repeats(i)})

\* The names of the entries, in their order.
NamesIn(es) == [i \in 1..Len(es) |-> es[i].name]

Ascending(ns) == \A i \in 1..(Len(ns) - 1) : StrLess(ns[i], ns[i + 1])

\* C5: when parse_bundle fails for any discovered bundle, wherever it stands
\* in the batch, the run writes nothing (the index stays what it was before
\* the run) and ends with return code 1; a run writes its index only when
\* every discovered bundle has produced an entry.
C5_AllOrNothing ==
    /\ (Discovered /\ \E i \in 1..Len(bundles) : Fails(i)) =>
           /\ ~wrote
           /\ index = prev_index
           /\ pc = "done" => rc = 1
    /\ wrote =>
           /\ rc = 0
           /\ Len(entries) = Len(bundles)
           /\ \A i \in 1..Len(bundles) : ~Fails(i)

\* A run that ended on a failing bundle after two earlier bundles had
\* produced entries.
C5_Witness ==
    /\ pc = "done"
    /\ rc = 1
    /\ ~wrote
    /\ err.kind = "bundle error"
    /\ Len(entries) >= 2
    /\ FirstBad = 3

\* C6 as stated: whenever two bundles of the batch decode to one module
\* name, the run fails with the duplicate-name error and writes no index.
C6_DuplicateAlwaysReported ==
    (pc = "done" /\ FirstDup <= Len(bundles)) =>
        /\ rc = 1
        /\ ~wrote
        /\ err.kind = "duplicate module name"

\* C6, amended: whenever two bundles of the batch decode to one module name,
\* the run fails and writes no index; the error is the duplicate-name error
\* for the first repeated name, unless a bundle that stands before the first
\* repetition fails to decode, and then it is that bundle's error.
C6_DuplicateRejected ==
    (pc = "done" /\ FirstDup <= Len(bundles)) =>
        /\ rc = 1
        /\ ~wrote
        /\ index = prev_index
        /\ FirstDup < FirstBad =>
               err = [kind |-> "duplicate module name", arg |-> NameOf(FirstDup)]
        /\ FirstBad < FirstDup =>
               /\ err.kind = "bundle error"
               /\ err.arg[1] = bundles[FirstBad]

\* A run that ended on the second bundle of a name, the two bundles apart
\* in the batch and of different versions.
C6_Witness ==
    /\ pc = "done"
    /\ rc = 1
    /\ ~wrote
    /\ err.kind = "duplicate module name"
    /\ FirstDup = 3
    /\ ~Repeats(2)
    /\ FirstBad > Len(bundles)

\* C7: a run on the same bundles as the run before it, presented in any
\* other order, hands write_index the same sequence of entries and writes
\* the same index text.
C7_IndexDeterminism ==
    (pc = "done" /\ wrote /\ prev_index # Absent) =>
        /\ entries = prev_entries
        /\ index = prev_index

\* A second run that wrote its index from three or more bundles presented
\* in another order than before, an order that is not the order of names.
C7_Witness ==
    /\ pc = "done"
    /\ wrote
    /\ reordered
    /\ prev_index # Absent
    /\ Len(entries) >= 3
    /\ ~Ascending([i \in 1..Len(bundles) |-> NameOf(i)])

\* C8: every index written lists one entry per discovered bundle, with
\* pairwise distinct module names, in ascending order of name (by code
\* point).
C8_IndexInvariant ==
    wrote =>
        /\ index = write_index(entries)
        /\ Len(entries) = Len(bundles)
        /\ Range(entries) = {scan(bundles[i]).val : i \in 1..Len(bundles)}
        /\ \A i, j \in 1..Len(entries) : i # j => entries[i].name # entries[j].name
        /\ Ascending(NamesIn(entries))

\* An index written from four bundles that were discovered in another order
\* than the order of their names.
C8_Witness ==
    /\ wrote
    /\ Len(entries) >= 4
    /\ ~Ascending([i \in 1..Len(bundles) |-> NameOf(i)])
    /\ Ascending(NamesIn(entries))

(***************************************************************************)
(* module.toml files given to module_lint                                  *)
(***************************************************************************)
MaxItems == 2

\* The text of one line  key = value.
Line(key, value) == key \o Txt(<<" ", "=", " ">>) \o value

\* The lists of at most n elements of S.
ListsUpTo(S, n) == UNION {[1..k -> S] : k \in 0..n}

\* No line, or one line for the key with each of the values.
OptionalLine(key, values) == {<<>>} \cup {<<Line(key, v)>> : v \in values}

\* name: missing, well-formed, empty, or with characters the grammar lacks.
NameLines ==
    OptionalLine(K_name,
        {Quoted(Txt(<<"c", "o", "r", "e", "-", "f", "s">>)),
         Quoted(<<>>),
         Quoted(Txt(<<"C", "o", "r", "e", "_", "f", "s">>))})

\* version: missing, well-formed, empty, or without its patch number.
VersionLines ==
    OptionalLine(K_version,
        {Quoted(Txt(<<"1", ".", "0", ".", "0">>)),
         Quoted(<<>>),
         Quoted(Txt(<<"1", ".", "0">>))})

ProvidesLines ==
    OptionalLine(K_provides,
        {format_list(<<Txt(<<"r", "u", "z", "z", "l", "e", ".", "f", "s">>)>>),
         format_list(<<Txt(<<"f", "s">>)>>)})

\* slots: missing, a plain slot, the same with a revision, or no slot id.
SlotsLines ==
    OptionalLine(K_slots,
        {format_list(<<Txt(<<"r", "u", "z", "z", "l", "e", ".", "s", "l", "o", "t",
                             ".", "f", "s">>)>>),
         format_list(<<Txt(<<"r", "u", "z", "z", "l", "e", ".", "s", "l", "o", "t",
                             ".", "f", "s", "@", "1">>)>>),
         format_list(<<Txt(<<"r", "u", "z", "z", "l", "e", ".", "f", "s">>)>>)})

\* requires_caps: missing, or a list of known and unknown capabilities.
CapsLines ==
    OptionalLine(K_requires_caps,
        {format_list(caps) :
            caps \in ListsUpTo({Txt(<<"T", "i", "m", "e", "r">>),
                                Txt(<<"t", "i", "m", "e", "r">>)}, MaxItems)})

DependsLines ==
    OptionalLine(K_depends,
        {format_list(<<Txt(<<"c", "o", "r", "e">>)>>),
         format_list(<<Txt(<<"C", "o", "r", "e">>)>>)})

\* Nothing more, a comment, a line that is no  key = value, a line with a
\* key that is not allowed, or one more line for provides.
OtherLines ==
    {<<>>, <<Txt(<<"#", " ", "x">>)>>, <<Txt(<<"x">>)>>,
     <<Line(Txt(<<"k", "i", "n", "d">>), Quoted(Txt(<<"x">>)))>>,
     <<Line(K_provides, format_list(<<>>))>>}

ManifestTexts ==
    {Join(n \o v \o p \o sl \o c \o d \o o, Txt(<<"\n">>)) :
        n \in NameLines, v \in VersionLines, p \in ProvidesLines,
        sl \in SlotsLines, c \in CapsLines, d \in DependsLines, o \in OtherLines}

LintInit ==
    /\ toml \in ManifestTexts
    /\ diags = <<>>
    /\ lint_pc = "ready"
    /\ CodecIdle
    /\ IndexIdle

\* module_lint.lint_manifest on the text of the file.
Lint ==
    /\ lint_pc = "ready"
    /\ diags' = lint_manifest(toml)
    /\ lint_pc' = "linted"
    /\ UNCHANGED toml
    /\ UNCHANGED <<codecVars, indexVars>>

SpecLint == LintInit /\ [][Lint]_vars

(***************************************************************************)
(* Properties of module_lint                                               *)
(***************************************************************************)
\* The number of elements of the list that P does not hold of.
\* The number of entries of the list that are not in the set.
CountBad(items, good) == Cardinality({i \in 1..Len(items) : items[i] \notin good})

\* The entries of a list field of the manifest.
Entries(data, key) == Get(data, key, List(<<>>)).v

\* The number of validation rules the parsed manifest violates: presence of
\* name and of version, the grammar of each when it is there, and one rule
\* per entry of provides, slots, requires_caps and depends.
Violations(data) ==
    (IF K_name \notin DOMAIN data THEN 1
     ELSE IF ~MODULE_RE(data[K_name].v) THEN 1 ELSE 0)
    + (IF K_version \notin DOMAIN data THEN 1
       ELSE IF ~VERSION_RE(data[K_version].v) THEN 1 ELSE 0)
    + CountBad(Entries(data, K_provides),
               {x \in Range(Entries(data, K_provides)) : SERVICE_RE(x)})
    + CountBad(Entries(data, K_slots),
               {x \in Range(Entries(data, K_slots)) : SLOT_RE(x)})
    + CountBad(Entries(data, K_requires_caps), CAPABILITIES)
    + CountBad(Entries(data, K_depends),
               {x \in Range(Entries(data, K_depends)) : MODULE_RE(x)})

\* The manifest that was linted, parsed.
Linted == parse_manifest(toml)

\* C9: for a manifest text that parses, lint_manifest returns at least as
\* many diagnostics as the manifest violates validation rules.
C9_OneDiagnosticPerViolation ==
    (lint_pc = "linted" /\ Linted.ok) => Len(diags) >= Violations(Linted.val)

\* C10: a manifest for which lint_manifest returns no diagnostics has a name
\* and a version, the name matches the module-name grammar (and so is not
\* empty) and the version matches the version grammar.
C10_CleanManifestIsValid ==
    (lint_pc = "linted" /\ diags = <<>>) =>
        /\ Linted.ok
        /\ K_name \in DOMAIN Linted.val
        /\ K_version \in DOMAIN Linted.val
        /\ Linted.val[K_name].v # <<>>
        /\ MODULE_RE(Linted.val[K_name].v)
        /\ VERSION_RE(Linted.val[K_version].v)

(***************************************************************************)
(* slot_lint: parse_contract and lint_contract                             *)
(***************************************************************************)
K_slot == Txt(<<"s", "l", "o", "t">>)

K_summary == Txt(<<"s", "u", "m", "m", "a", "r", "y">>)

\* slot_lint.ALLOWED_KEYS
slot_lint_ALLOWED_KEYS == {K_slot, K_summary, K_provides, K_requires_caps}

\* slot_lint.CAPABILITIES
slot_lint_CAPABILITIES ==
    { Txt(<<"C", "o", "n", "s", "o", "l", "e", "W", "r", "i", "t", "e">>),
      Txt(<<"E", "n", "d", "p", "o", "i", "n", "t", "C", "r", "e", "a", "t", "e">>),
      Txt(<<"S", "h", "m", "C", "r", "e", "a", "t", "e">>),
      Txt(<<"P", "r", "o", "c", "e", "s", "s", "S", "p", "a", "w", "n">>),
      Txt(<<"T", "i", "m", "e", "r">>),
      Txt(<<"F", "s", "R", "o", "o", "t">>),
      Txt(<<"W", "i", "n", "d", "o", "w", "S", "e", "r", "v", "e", "r">>),
      Txt(<<"I", "n", "p", "u", "t", "D", "e", "v", "i", "c", "e">>),
      Txt(<<"G", "p", "u", "D", "e", "v", "i", "c", "e">>) }

\* A slot pattern for contracts that lacks the revision.
slot_without_revision(s) == SLOT_RE(s)

\* slot_lint.SLOT_RE: the slot id of module_lint followed by @ and digits.
slot_lint_SLOT_RE(s) ==
    AtEnd(s, ClassPlus(s,
        Lit(s, ClassPlus(s,
                   SegSepStar(s,
                       Lit(s, {0}, Txt(<<"r", "u", "z", "z", "l", "e", ".",
                                         "s", "l", "o", "t", ".">>)),
                       SEGMENT_RE, Txt(<<".">>)),
                   SEGMENT_RE),
            Txt(<<"@">>)),
        DIGIT))

parse_contract(text) ==
    parse_lines(splitlines(text), 1, EmptyDict, slot_lint_ALLOWED_KEYS,
                {K_slot, K_summary})

\* lint_contract once the text is parsed: lines 90-116.
lint_contract_data(data) ==
    LET slot == Get(data, K_slot, Str(<<>>)).v
        badSlot == IF slot = <<>>
                   THEN <<Diag("missing required", K_slot)>>
                   ELSE IF ~slot_lint_SLOT_RE(slot)
                   THEN <<Diag("invalid slot", slot)>> ELSE <<>>
        summary == Get(data, K_summary, Str(<<>>)).v
        noSummary == IF summary = <<>>
                     THEN <<Diag("missing required", K_summary)>> ELSE <<>>
        provides == Get(data, K_provides, List(<<>>))
        badProvides ==
            IF provides.t = "list"
            THEN EachBad(provides.v, {x \in Range(provides.v) : SERVICE_RE(x)},
                         "invalid service")
            ELSE <<Diag("provides must be list", <<>>)>>
        requires == Get(data, K_requires_caps, List(<<>>))
        badCaps ==
            IF requires.t = "list"
            THEN EachBad(requires.v, slot_lint_CAPABILITIES, "unknown capability")
            ELSE <<Diag("requires_caps must be list", <<>>)>>
    IN  badSlot \o noSummary \o badProvides \o badCaps

\* lint_contract on the text read from the file: a grammar error is the one
\* diagnostic returned.
lint_contract(text) ==
    IF ~parse_contract(text).ok
    THEN <<Diag(parse_contract(text).err, parse_contract(text).line)>>
    ELSE lint_contract_data(parse_contract(text).val)

(***************************************************************************)
(* Slot contract files given to slot_lint                                  *)
(***************************************************************************)
\* slot: missing, with a revision, without one, empty, with an empty
\* revision, or no slot id; summary: missing, given or empty; provides and
\* the other lines as for a manifest; requires_caps: missing, or a list of
\* known and unknown capabilities.
ContractTexts ==
    {Join(sl \o su \o p \o c \o o, Txt(<<"\n">>)) :
        sl \in OptionalLine(K_slot,
                  {Quoted(Txt(<<"r", "u", "z", "z", "l", "e", ".", "s", "l", "o", "t",
                                ".", "d", "i", "s", "p", "l", "a", "y", ".",
                                "p", "r", "i", "m", "a", "r", "y", "@", "1">>)),
                   Quoted(Txt(<<"r", "u", "z", "z", "l", "e", ".", "s", "l", "o", "t",
                                ".", "d", "i", "s", "p", "l", "a", "y", ".",
                                "p", "r", "i", "m", "a", "r", "y">>)),
                   Quoted(<<>>),
                   Quoted(Txt(<<"r", "u", "z", "z", "l", "e", ".", "s", "l", "o", "t",
                                ".", "f", "s", "@">>)),
                   Quoted(Txt(<<"r", "u", "z", "z", "l", "e", ".", "f", "s",
                                "@", "1">>))}),
        su \in OptionalLine(K_summary, {Quoted(Txt(<<"x">>)), Quoted(<<>>)}),
        p \in ProvidesLines,
        c \in OptionalLine(K_requires_caps,
                 {format_list(caps) :
                     caps \in ListsUpTo({Txt(<<"G", "p", "u", "D", "e", "v", "i", "c", "e">>),
                                         Txt(<<"g", "p", "u", "d", "e", "v", "i", "c", "e">>)},
                                        MaxItems)}),
        o \in OtherLines}

ContractInit ==
    /\ toml \in ContractTexts
    /\ diags = <<>>
    /\ lint_pc = "contract ready"
    /\ CodecIdle
    /\ IndexIdle

\* slot_lint.lint_contract on the text of the file.
LintContract ==
    /\ lint_pc = "contract ready"
    /\ diags' = lint_contract(toml)
    /\ lint_pc' = "contract linted"
    /\ UNCHANGED toml
    /\ UNCHANGED <<codecVars, indexVars>>

\* Either linter on a file of its kind.
LintersInit == LintInit \/ ContractInit

LintersNext ==
    \/ Lint
    \/ LintContract

SpecLinters == LintersInit /\ [][LintersNext]_vars

(***************************************************************************)
(* Properties of the two linters                                           *)
(***************************************************************************)
\* A linter has returned.
LintDone == lint_pc \in {"linted", "contract linted"}

\* The file that was linted, parsed by the parser of its linter.
ParsedFile ==
    IF lint_pc \in {"ready", "linted"} THEN parse_manifest(toml)
    ELSE parse_contract(toml)

\* The requires_caps entries of the file.
Caps == Entries(ParsedFile.val, K_requires_caps)

\* The values quoted by the diagnostics of one kind, in their order.
Quoted_by(kind) ==
    LET of_kind == SelectSeq(diags, LAMBDA d : d.kind = kind) IN
    [i \in 1..Len(of_kind) |-> of_kind[i].arg]

\* The capability vocabulary as the claim lists it.
C11_Vocabulary ==
    { Txt(<<"C", "o", "n", "s", "o", "l", "e", "W", "r", "i", "t", "e">>),
      Txt(<<"E", "n", "d", "p", "o", "i", "n", "t", "C", "r", "e", "a", "t", "e">>),
      Txt(<<"S", "h", "m", "C", "r", "e", "a", "t", "e">>),
      Txt(<<"P", "r", "o", "c", "e", "s", "s", "S", "p", "a", "w", "n">>),
      Txt(<<"T", "i", "m", "e", "r">>),
      Txt(<<"F", "s", "R", "o", "o", "t">>),
      Txt(<<"W", "i", "n", "d", "o", "w", "S", "e", "r", "v", "e", "r">>),
      Txt(<<"I", "n", "p", "u", "t", "D", "e", "v", "i", "c", "e">>),
      Txt(<<"G", "p", "u", "D", "e", "v", "i", "c", "e">>) }

\* C11: in both linters the capability sets are the nine names of the
\* vocabulary; for a file that parses, the "unknown capability" diagnostics
\* are exactly the requires_caps entries outside the vocabulary, one per
\* entry and in their order, and none for an entry inside it; a file that
\* names an unknown capability, or that does not parse, never lints clean.
C11_ClosedVocabulary ==
    /\ CAPABILITIES = C11_Vocabulary
    /\ slot_lint_CAPABILITIES = C11_Vocabulary
    /\ LintDone =>
          LET parsed == ParsedFile
              unknown == SelectSeq(Entries(parsed.val, K_requires_caps),
                                   LAMBDA c : c \notin C11_Vocabulary)
          IN  IF parsed.ok
              THEN /\ Quoted_by("unknown capability") = unknown
                   /\ unknown # <<>> => diags # <<>>
              ELSE diags # <<>>

\* A contract with an unknown capability followed by a known one, linted:
\* one capability diagnostic, for the unknown one.
C11_Witness ==
    /\ lint_pc = "contract linted"
    /\ ParsedFile.ok
    /\ Len(Caps) = 2
    /\ Caps[1] \notin C11_Vocabulary
    /\ Caps[2] \in C11_Vocabulary
    /\ Quoted_by("unknown capability") = <<Caps[1]>>

\* The lines of the file that the parser does not ignore: not blank, no
\* comment.
KeptLines ==
    SelectSeq(splitlines(toml),
              LAMBDA line : strip(line) # <<>> /\ Head(strip(line)) # Ord["#"])

\* The key of a line: what stands before its first "=", stripped.
KeyOfLine(line) ==
    strip(SubSeq(strip(line), 1, FirstIn(strip(line), {Ord["="]}, 1) - 1))

\* The keys of the lines that are not ignored, line by line.
KeyLines == [i \in 1..Len(KeptLines) |-> KeyOfLine(KeptLines[i])]

\* The keys the linter of the file allows, and those that hold a string.
AllowedHere ==
    IF lint_pc = "linted" THEN ALLOWED_KEYS ELSE slot_lint_ALLOWED_KEYS

StringKeysHere ==
    IF lint_pc = "linted" THEN {K_name, K_version} ELSE {K_slot, K_summary}

\* C12: when parse_manifest or parse_contract returns a mapping, every key
\* of it is an allowed key, every line that is not ignored gave one key and
\* every key comes from exactly one such line, the string fields hold a
\* string and every other field a list of strings; a text with a line whose
\* key is not allowed, or with one key on two lines, fails; and the parser
\* gives the same result for the same text.
C12_ParserResultShape ==
    LintDone =>
        LET parsed == ParsedFile
            keys == KeyLines
            repeated == \E i, j \in 1..Len(keys) : i # j /\ keys[i] = keys[j]
        IN  /\ parsed.ok =>
                  /\ DOMAIN parsed.val \subseteq AllowedHere
                  /\ Range(keys) = DOMAIN parsed.val
                  /\ ~repeated
                  /\ \A k \in DOMAIN parsed.val :
                        IF k \in StringKeysHere
                        THEN /\ parsed.val[k].t = "str"
                             /\ parsed.val[k].v \in Seq(Nat)
                        ELSE /\ parsed.val[k].t = "list"
                             /\ \A n \in 1..Len(parsed.val[k].v) :
                                   parsed.val[k].v[n] \in Seq(Nat)
            /\ (\E i \in 1..Len(keys) : keys[i] \notin AllowedHere) => ~parsed.ok
            /\ repeated => ~parsed.ok
            /\ parsed = ParsedFile

\* A contract of four lines with four different keys, parsed: two string
\* fields and two list fields, one of them with two items.
C12_Witness ==
    /\ lint_pc = "contract linted"
    /\ ParsedFile.ok
    /\ Len(KeyLines) = 4
    /\ DOMAIN ParsedFile.val = slot_lint_ALLOWED_KEYS
    /\ Len(ParsedFile.val[K_requires_caps].v) = 2

\* A plain slot id: "ruzzle.slot." and then one or more segments joined by
\* dots, each of one or more characters of the segment class.
PlainSlotId(s) ==
    LET prefix == Txt(<<"r", "u", "z", "z", "l", "e", ".", "s", "l", "o", "t", ".">>)
        segments == split(SubSeq(s, Len(prefix) + 1, Len(s)), Ord["."])
    IN  /\ StartsWith(s, prefix)
        /\ \A n \in 1..Len(segments) :
              segments[n] # <<>> /\ Range(segments[n]) \subseteq SEGMENT_RE

\* A plain slot id, then "@", then one or more decimal digits.
RevisionedSlotId(s) ==
    \E i \in 1..Len(s) :
        /\ s[i] = Ord["@"]
        /\ PlainSlotId(SubSeq(s, 1, i - 1))
        /\ i < Len(s)
        /\ \A n \in (i + 1)..Len(s) : s[n] \in DIGIT

\* The slot of the contract that was linted, empty when it has none.
SlotHere == Get(ParsedFile.val, K_slot, Str(<<>>)).v

\* C13: lint_contract gives no diagnostic about the slot exactly when the
\* contract has a slot that is a plain slot id followed by "@" and a
\* revision number; a slot that is not of that form, a plain slot id among
\* them, gets "invalid slot" (an empty or missing one "missing required").
\* lint_manifest gives "invalid slot" for exactly the entries of slots that
\* are no plain slot id, those with a revision among them.
C13_SlotGrammarByContext ==
    LintDone =>
        LET parsed == ParsedFile
            slot == Get(parsed.val, K_slot, Str(<<>>)).v
            invalid == Quoted_by("invalid slot")
        IN  parsed.ok =>
               IF lint_pc = "contract linted"
               THEN /\ invalid = (IF slot # <<>> /\ ~RevisionedSlotId(slot)
                                  THEN <<slot>> ELSE <<>>)
                    /\ (slot = <<>>)
                           <=> (Diag("missing required", K_slot) \in Range(diags))
                    /\ PlainSlotId(slot) => invalid = <<slot>>
               ELSE /\ invalid = SelectSeq(Entries(parsed.val, K_slots),
                                           LAMBDA e : ~PlainSlotId(e))
                    /\ \A e \in Range(Entries(parsed.val, K_slots)) :
                          RevisionedSlotId(e) => e \in Range(invalid)

\* A contract whose slot is a plain slot id without a revision, linted: the
\* slot is reported as invalid.
C13_Witness ==
    /\ lint_pc = "contract linted"
    /\ ParsedFile.ok
    /\ PlainSlotId(SlotHere)
    /\ Quoted_by("invalid slot") = <<SlotHere>>

=============================================================================
